---- MODULE Spec2Model ----
(***************************************************************************)
(* The shipping-discount structural rewrite of migrate-extensions.js       *)
(* (findBalancedEnd, skipQuoted, skipTemplate, extractProp, reindentLines, *)
(* detectIndentUnit, rewriteShippingDiscountOutput) as a state machine,    *)
(* its copy in upgrade-functions.js, and a run of the migration tool.      *)
(* Text is a sequence of one-character strings; offsets are 0-based as in  *)
(* the source.                                                             *)
(***************************************************************************)
EXTENDS Integers, Sequences, FiniteSets, TLC

VARIABLES
    calls,   \* calls[c]: the locals of invocation c of rewriteShippingDiscountOutput
    gen,     \* gen[c]: the pieces the input of invocation c was composed of
    prev,    \* prev[c]: outputs of the earlier runs of c when it is re-applied
    scan,    \* a single findBalancedEnd call: its arguments and its result
    run      \* a run of the tool (main): its flags, the extensions found, its progress

vars == <<calls, gen, prev, scan, run>>

\* ---------------------------------------------------------------- bounds
MaxProps == 3      \* properties per candidate body
MaxFrags == 3      \* fragments after the opener of a scanned text
MaxExts == 2       \* extensions found by a run of the tool
MaxSteps == 80     \* steps of a call followed when it runs alone
MaxParts == 2      \* properties of a body handed to extractProp alone
MaxLines == 3      \* lines of a text handed to reindentLines alone

\* ------------------------------------------------------- JavaScript text
Undefined == "undefined"   \* str[i] for i outside the string
Backtick == "BACKTICK"     \* the character U+0060, which a TLA+ string cannot hold

At(str, i) == IF i >= 0 /\ i < Len(str) THEN str[i + 1] ELSE Undefined

Min(a, b) == IF a <= b THEN a ELSE b
Max(a, b) == IF a >= b THEN a ELSE b
Clamp(n, len) == Max(0, Min(n, len))

\* String.prototype.substring: both ends clamped to [0, length], swapped when
\* start > end.
Substring(str, a, b) ==
    LET x == Clamp(a, Len(str))
        y == Clamp(b, Len(str))
    IN  SubSeq(str, Min(x, y) + 1, Max(x, y))

SubstringFrom(str, a) == Substring(str, a, Len(str))

StartsWithAt(str, pat, i) ==
    /\ i + Len(pat) <= Len(str)
    /\ \A k \in 1..Len(pat) : str[i + k] = pat[k]

\* String.prototype.indexOf(pat, from): the least offset >= from, or -1.
IndexOf(str, pat, from) ==
    LET hits == {i \in Max(0, from)..(Len(str) - Len(pat)) : StartsWithAt(str, pat, i)}
    IN  IF hits = {} THEN -1 ELSE CHOOSE i \in hits : \A k \in hits : i <= k

Includes(str, pat) == IndexOf(str, pat, 0) # -1

\* /\s/ on the characters the inputs are built from.
IsWs(ch) == ch \in {" ", "\n", "\t", "\r"}

\* In the operators below a local that is read more than once is bound by
\* "CHOOSE r \in { e(k) : k \in {...} } : TRUE" or "\E k \in {...}", which evaluates it
\* once; the value is that of LET k == ... IN e(k).

\* The cursor of a loop "while (i < str.length && !P(str[i])) i++" when it ends:
\* the first offset from i on whose character satisfies P, else the length
\* (i itself when i is already at or past the end).
FirstAt(str, i, P(_)) ==
    IF i >= Len(str) THEN i
    ELSE CHOOSE k \in i..Len(str) :
             /\ k = Len(str) \/ P(At(str, k))
             /\ \A m \in i..(k - 1) : ~P(At(str, m))

RECURSIVE Concat(_)
Concat(ss) == IF ss = <<>> THEN <<>> ELSE Head(ss) \o Concat(Tail(ss))

\* ------------------------------------------------------- Lexical scanner
RECURSIVE SkipQuotedFrom(_, _, _)
SkipQuotedFrom(str, q, i) ==
    CHOOSE r \in {
    IF k >= Len(str) THEN k
    ELSE IF At(str, k) = "\\" THEN SkipQuotedFrom(str, q, k + 2)
    ELSE k + 1 : k \in {FirstAt(str, i, LAMBDA ch : ch = "\\" \/ ch = q)} } : TRUE

skipQuoted(str, pos) == SkipQuotedFrom(str, At(str, pos), pos + 1)

\* The inner loop of skipTemplate: counts '{' and '}' only.
RECURSIVE SkipInterpolation(_, _, _)
SkipInterpolation(str, i, d) ==
    CHOOSE r \in {
    IF i < Len(str) /\ dd > 0
    THEN IF k >= Len(str) THEN k
         ELSE SkipInterpolation(str, k + 1, IF At(str, k) = "{" THEN dd + 1 ELSE dd - 1)
    ELSE i : k \in {FirstAt(str, i, LAMBDA ch : ch = "{" \/ ch = "}")}, dd \in {d} } : TRUE

RECURSIVE SkipTemplateFrom(_, _)
SkipTemplateFrom(str, i) ==
    CHOOSE r \in {
    IF k >= Len(str) THEN k
    ELSE IF At(str, k) = "\\" THEN SkipTemplateFrom(str, k + 2)
    ELSE IF At(str, k) = "$" /\ At(str, k + 1) = "{"
         THEN SkipTemplateFrom(str, SkipInterpolation(str, k + 2, 1))
    ELSE IF At(str, k) = Backtick THEN k + 1
    ELSE SkipTemplateFrom(str, k + 1)
    : k \in {FirstAt(str, i, LAMBDA ch : ch = "\\" \/ ch = "$" \/ ch = Backtick)} } : TRUE

skipTemplate(str, pos) == SkipTemplateFrom(str, pos + 1)

CloserOf(open) == IF open = "{" THEN "}" ELSE "]"

RECURSIVE FindBalancedFrom(_, _, _, _)
FindBalancedFrom(str, open, from, depth) ==
    CHOOSE r \in {
    IF i >= Len(str) THEN -1
    ELSE LET ch == At(str, i) IN
         IF ch = "\"" \/ ch = "'" THEN FindBalancedFrom(str, open, skipQuoted(str, i), d)
         ELSE IF ch = Backtick THEN FindBalancedFrom(str, open, skipTemplate(str, i), d)
         ELSE IF ch = open THEN FindBalancedFrom(str, open, i + 1, d + 1)
         ELSE IF ch = CloserOf(open)
              THEN IF d - 1 = 0 THEN i
                   ELSE FindBalancedFrom(str, open, i + 1, d - 1)
         ELSE FindBalancedFrom(str, open, i + 1, d)
    : i \in {FirstAt(str, from, LAMBDA c : c \in {"\"", "'", Backtick, open, CloserOf(open)})},
      d \in {depth} } : TRUE

findBalancedEnd(str, pos) ==
    CHOOSE r \in { FindBalancedFrom(str, o, p, 0) : o \in {At(str, pos)}, p \in {pos} } : TRUE

\* ------------------------------------------------------ Property Locator
\* What extractProp returns: null, or { value } with the span it was cut from.
Unset == [st |-> "unset", start |-> 0, end |-> 0, value |-> <<>>]
Null == [st |-> "null", start |-> 0, end |-> 0, value |-> <<>>]
Found(body, j, end) ==
    [st |-> "value", start |-> j, end |-> end, value |-> Substring(body, j, end)]

\* while (i < str.length && /\s/.test(str[i])) i++;
SkipWs(str, i) == FirstAt(str, i, LAMBDA ch : ~IsWs(ch))

\* while (j < body.length && body[j] === ' ') j++;
SkipSpaces(str, j) == FirstAt(str, j, LAMBDA ch : ch # " ")

\* while (end < body.length && body[end] !== ',' && body[end] !== '\n') end++;
PlainValueEnd(body, end) == FirstAt(body, end, LAMBDA ch : ch = "," \/ ch = "\n")

\* Faulty variant: a quoted value runs on to the next comma or newline.
ValueEndQuotedToComma(body, j) ==
    LET ch == At(body, j) IN
    IF ch = "{" THEN findBalancedEnd(body, j) + 1
    ELSE IF ch = "[" THEN findBalancedEnd(body, j) + 1
    ELSE IF ch = Backtick THEN skipTemplate(body, j)
    ELSE PlainValueEnd(body, j)

\* The end of the value that starts at j, by its first character.
ValueEnd(body, j) ==
    LET ch == At(body, j) IN
    IF ch = "{" THEN findBalancedEnd(body, j) + 1
    ELSE IF ch = "[" THEN findBalancedEnd(body, j) + 1
    ELSE IF ch = Backtick THEN skipTemplate(body, j)
    ELSE IF ch = "\"" \/ ch = "'" THEN skipQuoted(body, j)
    ELSE PlainValueEnd(body, j)

\* Faulty variant: the name may be followed by more characters of a key.
KeyAtPrefix(body, name, i) ==
    IF Substring(body, i, i + Len(name)) = name
    THEN LET j == SkipSpaces(body, FirstAt(body, i + Len(name),
                                           LAMBDA ch : ch \in {":", " ", ","})) IN
         IF At(body, j) = ":" THEN SkipSpaces(body, j + 1) ELSE -1
    ELSE -1

\* Whether `name`, optional spaces and a colon start at i; then the offset of
\* the value, else -1.
KeyAt(body, name, i) ==
    IF Substring(body, i, i + Len(name)) = name
    THEN LET j == SkipSpaces(body, i + Len(name)) IN
         IF At(body, j) = ":" THEN SkipSpaces(body, j + 1) ELSE -1
    ELSE -1

\* /[\s{[\`"',}\]]/
StopsToken(ch) == IsWs(ch) \/ ch \in {"{", "[", Backtick, "\"", "'", ",", "}", "]"}

\* while (i < body.length && !/[\s{[\`"',}\]]/.test(body[i])) i++;
SkipWord(body, i) == FirstAt(body, i, StopsToken)

\* Faulty variant: an opening brace or bracket is passed as one character, so the scan
\* descends into the nested value.
SkipTokenDescending(body, i) ==
    LET ch == At(body, i) IN
    IF ch = "{" \/ ch = "[" THEN i + 1
    ELSE IF ch = Backtick THEN skipTemplate(body, i)
    ELSE IF ch = "\"" \/ ch = "'" THEN skipQuoted(body, i)
    ELSE LET k == SkipWord(body, i) IN
         IF k < Len(body) /\ (At(body, k) = "," \/ At(body, k) = ":") THEN k + 1 ELSE k

\* The cursor after the token at i is passed over.
SkipToken(body, i) ==
    LET ch == At(body, i) IN
    IF ch = "{" THEN findBalancedEnd(body, i) + 1
    ELSE IF ch = "[" THEN findBalancedEnd(body, i) + 1
    ELSE IF ch = Backtick THEN skipTemplate(body, i)
    ELSE IF ch = "\"" \/ ch = "'" THEN skipQuoted(body, i)
    ELSE LET k == SkipWord(body, i) IN
         IF k < Len(body) /\ (At(body, k) = "," \/ At(body, k) = ":") THEN k + 1 ELSE k

\* ----------------------------------------------------- Indentation model
\* text.split('\n')
RECURSIVE SplitLines(_)
SplitLines(text) ==
    CHOOSE r \in {
        IF nl = -1 THEN <<t>>
        ELSE <<Substring(t, 0, nl)>> \o SplitLines(SubstringFrom(t, nl + 1))
        : nl \in {IndexOf(text, <<"\n">>, 0)}, t \in {text} } : TRUE

\* lines.join('\n')
RECURSIVE JoinLines(_)
JoinLines(lines) ==
    IF Len(lines) = 1 THEN lines[1]
    ELSE lines[1] \o <<"\n">> \o JoinLines(Tail(lines))

\* String.prototype.trim
TrimEnd(text) ==
    LET n == CHOOSE k \in 0..Len(text) :
                 /\ k = 0 \/ ~IsWs(text[k])
                 /\ \A m \in (k + 1)..Len(text) : IsWs(text[m])
    IN  SubSeq(text, 1, n)

Trim(text) == TrimEnd(SubstringFrom(text, SkipWs(text, 0)))

\* Faulty variant: blank lines are indented like the others.
reindentLinesBlankToo(text, extra) ==
    CHOOSE r \in {
        JoinLines([idx \in 1..Len(lines) |->
                     IF idx = 1 THEN lines[idx] ELSE extra \o lines[idx]])
        : lines \in {SplitLines(text)} } : TRUE

\* lines.map((line, idx) => idx === 0 || line.trim() === '' ? line : extra + line)
reindentLines(text, extra) ==
    CHOOSE r \in {
        JoinLines([idx \in 1..Len(lines) |->
                     IF idx = 1 \/ Trim(lines[idx]) = <<>> THEN lines[idx]
                     ELSE extra \o lines[idx]])
        : lines \in {SplitLines(text)} } : TRUE

\* Faulty variant: two spaces whatever the text holds.
detectIndentUnitSpaces(content) == <<" ", " ">>

detectIndentUnit(content) ==
    IF Includes(content, <<"\n", "\t">>) THEN <<"\t">> ELSE <<" ", " ">>

\* unit.repeat(n)
RECURSIVE Repeat(_, _)
Repeat(unit, n) == IF n = 0 THEN <<>> ELSE unit \o Repeat(unit, n - 1)

\* ----------------------------------------------- Structural rewrite driver
Anchor == <<"o", "p", "e", "r", "a", "t", "i", "o", "n", "s", ":">>
Marker ==
    <<"d", "e", "l", "i", "v", "e", "r", "y", "D", "i", "s", "c", "o", "u", "n", "t",
      "s", "A", "d", "d">>
NameValue == <<"v", "a", "l", "u", "e">>
NameTargets == <<"t", "a", "r", "g", "e", "t", "s">>
NameMessage == <<"m", "e", "s", "s", "a", "g", "e">>

\* Faulty variant: the marker is looked for from the first anchor on.
AlreadyMigratedAfterAnchor(content) ==
    LET idx == IndexOf(content, Anchor, 0)
    IN  idx # -1 /\ Includes(SubstringFrom(content, idx), Marker)

\* Faulty variant: the marker is looked for in candidates only, never in the whole buffer.
AlreadyMigratedNever(content) == FALSE

AlreadyMigrated(content) == Includes(content, Marker)

\* let ls = elemStart; while (ls > 0 && content[ls - 1] !== '\n') ls--;
LineStart(content, elemStart) ==
    CHOOSE ls \in 0..elemStart :
        /\ ls = 0 \/ At(content, ls - 1) = "\n"
        /\ \A m \in (ls + 1)..elemStart : At(content, m - 1) # "\n"

\* content.substring(ls, elemStart).match(/^(\s*)/)[1]
ElemIndent(content, ls, elemStart) ==
    LET prefix == Substring(content, ls, elemStart)
    IN  Substring(prefix, 0, SkipWs(prefix, 0))

TxtOpen == <<"{", "\n">>
TxtWrapper ==
    <<"d", "e", "l", "i", "v", "e", "r", "y", "D", "i", "s", "c", "o", "u", "n", "t",
      "s", "A", "d", "d", ":", " ", "{", "\n">>
TxtStrategy ==
    <<"s", "e", "l", "e", "c", "t", "i", "o", "n", "S", "t", "r", "a", "t", "e", "g",
      "y", ":", " ", "\"", "A", "L", "L", "\"", ",", "\n">>
TxtCandidates ==
    <<"c", "a", "n", "d", "i", "d", "a", "t", "e", "s", ":", " ", "[", "\n">>
TxtTargets == <<"t", "a", "r", "g", "e", "t", "s", ":", " ">>
TxtValue == <<"v", "a", "l", "u", "e", ":", " ">>
TxtMessage == <<"m", "e", "s", "s", "a", "g", "e", ":", " ">>
TxtComma == <<",", "\n">>
TxtAssociated ==
    <<"a", "s", "s", "o", "c", "i", "a", "t", "e", "d", "D", "i", "s", "c", "o", "u",
      "n", "t", "C", "o", "d", "e", ":", " ", "n", "u", "l", "l", ",", "\n">>
TxtCloseObj == <<"}", ",", "\n">>
TxtCloseArr == <<"]", ",", "\n">>
TxtClose == <<"}">>

\* Faulty variant: the fields in the order of the legacy candidate (value first).
CandidateFieldsValueFirst(i4, extra, targetsV, valueV, messageV) ==
    i4 \o TxtValue \o reindentLines(valueV, extra) \o TxtComma
    \o i4 \o TxtTargets \o reindentLines(targetsV, extra) \o TxtComma
    \o i4 \o TxtMessage \o Trim(messageV) \o TxtComma
    \o i4 \o TxtAssociated

\* Lines 551-554: the fields of the one element of candidates.
CandidateFields(i4, extra, targetsV, valueV, messageV) ==
    i4 \o TxtTargets \o reindentLines(targetsV, extra) \o TxtComma
    \o i4 \o TxtValue \o reindentLines(valueV, extra) \o TxtComma
    \o i4 \o TxtMessage \o Trim(messageV) \o TxtComma
    \o i4 \o TxtAssociated

\* The block that replaces the candidate.
NewElem(elemIndent, unit, targetsV, valueV, messageV) ==
    LET i1 == elemIndent \o unit
        i2 == elemIndent \o Repeat(unit, 2)
        i3 == elemIndent \o Repeat(unit, 3)
        i4 == elemIndent \o Repeat(unit, 4)
        extra == Repeat(unit, 3)
    IN  elemIndent \o TxtOpen
        \o i1 \o TxtWrapper
        \o i2 \o TxtStrategy
        \o i2 \o TxtCandidates
        \o i3 \o TxtOpen
        \o CandidateFields(i4, extra, targetsV, valueV, messageV)
        \o i3 \o TxtCloseObj
        \o i2 \o TxtCloseArr
        \o i1 \o TxtCloseObj
        \o elemIndent \o TxtClose

\* content.substring(0, ls) + newElem + content.substring(elemEnd + 1)
Splice(content, ls, newElem, elemEnd) ==
    Substring(content, 0, ls) \o newElem \o SubstringFrom(content, elemEnd + 1)

\* Faulty variant: the element after the first one, when the array has one.
ElemStartAfterSecond(content, bi) ==
    LET k == SkipWs(content, bi + 1)
        e == findBalancedEnd(content, k)
        n == SkipWs(content, e + 2)
    IN  IF At(content, k) # "{" THEN -1
        ELSE IF e # -1 /\ At(content, e + 1) = "," /\ At(content, n) = "{" THEN n
        ELSE k

\* for (let i = bi + 1; ...): the offset of the array's first element, -1 if the
\* first character that is not whitespace is no '{'.
ElemStartAfter(content, bi) ==
    LET k == SkipWs(content, bi + 1) IN
    IF At(content, k) = "{" THEN k ELSE -1

\* The locals of one invocation; pc is the place the invocation has reached:
\* "begin" (line 504), "search" (the head of the while loop), "match" and "skip"
\* (the two halves of one pass of extractProp's loop), "check" (line 534), "done".
NewCall(text) ==
    [pc |-> "begin", content |-> text, unit |-> <<>>, searchFrom |-> 0,
     elemStart |-> -1, elemEnd |-> -1, body |-> <<>>, name |-> <<>>, i |-> 0,
     valueP |-> Unset, targetsP |-> Unset, messageP |-> Unset,
     iters |-> 0, out |-> <<>>]

Return(s, text) == [s EXCEPT !.pc = "done", !.out = text]

\* Faulty variant: the early return of line 504 left out.
BeginStepNoEarlyReturn(s) ==
    [s EXCEPT !.pc = "search", !.unit = detectIndentUnit(s.content), !.searchFrom = 0]

\* if (content.includes('deliveryDiscountsAdd')) return content;
BeginStep(s) ==
    IF AlreadyMigrated(s.content) THEN Return(s, s.content)
    ELSE [s EXCEPT !.pc = "search", !.unit = detectIndentUnit(s.content), !.searchFrom = 0]

\* Faulty variant: the cursor is left where it was.
RetryInPlace(s, from) == [s EXCEPT !.pc = "search"]

\* { searchFrom = ...; continue; }
Retry(s, from) == [s EXCEPT !.pc = "search", !.searchFrom = from]

\* body.includes('deliveryDiscountsAdd')
CandidateMigrated(body) == Includes(body, Marker)

\* Faulty variant: the last anchor from searchFrom on, not the first.
AnchorFromLast(s) ==
    LET hits == {i \in Max(0, s.searchFrom)..(Len(s.content) - Len(Anchor)) :
                   StartsWithAt(s.content, Anchor, i)}
    IN  IF hits = {} THEN -1 ELSE CHOOSE i \in hits : \A k \in hits : i >= k

\* const idx = content.indexOf('operations:', searchFrom);
AnchorFrom(s) == IndexOf(s.content, Anchor, s.searchFrom)

\* let bi = idx + 'operations:'.length; while (... /\s/.test(content[bi])) bi++;
BracketAfter(s, idx) == SkipWs(s.content, idx + Len(Anchor))

\* One pass of the while loop, up to the first extractProp call, given the
\* locals idx, bi, elemStart, elemEnd and body of that pass (a local the pass
\* does not reach is not read).
SearchStep(s, idx, bi, elemStart, elemEnd, body) ==
    IF ~(s.searchFrom < Len(s.content)) THEN Return(s, s.content)
    ELSE
    LET t == [s EXCEPT !.iters = @ + 1]
    IN  IF idx = -1 THEN Return(t, s.content)
        ELSE IF At(s.content, bi) # "[" THEN Retry(t, bi)
        ELSE IF elemStart = -1 THEN Retry(t, bi + 1)
        ELSE IF elemEnd = -1 THEN Retry(t, elemStart + 1)
        ELSE IF CandidateMigrated(body) THEN Retry(t, elemEnd + 1)
        ELSE [t EXCEPT !.pc = "match", !.elemStart = elemStart, !.elemEnd = elemEnd,
                       !.body = body, !.name = NameValue, !.i = 0,
                       !.valueP = Unset, !.targetsP = Unset, !.messageP = Unset]

\* extractProp returns r: the Driver stores it and makes its next call.
LocatorReturn(s, r) ==
    IF s.name = NameValue
    THEN [s EXCEPT !.valueP = r, !.name = NameTargets, !.i = 0, !.pc = "match"]
    ELSE IF s.name = NameTargets
    THEN [s EXCEPT !.targetsP = r, !.name = NameMessage, !.i = 0, !.pc = "match"]
    ELSE [s EXCEPT !.messageP = r, !.pc = "check"]

\* extractProp, lines 460-481: the loop test, the whitespace skip (to i) and the
\* match (j: where the value starts, -1 without a match; end: where it ends).
MatchStep(s, i, j, end) ==
    IF ~(i < Len(s.body)) THEN LocatorReturn(s, Null)
    ELSE IF j # -1 THEN LocatorReturn(s, Found(s.body, j, end))
    ELSE [s EXCEPT !.pc = "skip", !.i = i]

\* extractProp, lines 483-488.
SkipStep(s, i) == [s EXCEPT !.pc = "match", !.i = i]

\* Faulty variant: && for ||.
ShapeMismatchAllAbsent(s) ==
    s.valueP.st = "null" /\ s.targetsP.st = "null" /\ s.messageP.st = "null"

\* if (!valueP || !targetsP || !messageP)
ShapeMismatch(s) ==
    s.valueP.st = "null" \/ s.targetsP.st = "null" \/ s.messageP.st = "null"

\* Lines 534-560, given the locals ls and elemIndent.
CheckStep(s, ls, elemIndent) ==
    IF ShapeMismatch(s) THEN Retry(s, s.elemEnd + 1)
    ELSE Return(s, Splice(s.content, ls,
                          NewElem(elemIndent, s.unit, s.targetsP.value,
                                  s.valueP.value, s.messageP.value),
                          s.elemEnd))

\* ------------------------------------------------------------- the inputs
\* An input is composed of: text before the first anchor, a first site of one
\* of five kinds, optionally a second site with a legacy candidate, and a tail.
\* The body of a candidate is up to MaxProps properties separated by ", ".
ItemText(k) ==
    CASE k = 1 -> <<"v", "a", "l", "u", "e", ":", " ", "{", "v", "a", "l", "u", "e", ":", " ", "1", "}">>
      [] k = 2 -> <<"t", "a", "r", "g", "e", "t", "s", ":", " ", "[", "\n", "{", "t", "a", "r", "g", "e", "t", "s", ":", " ", "2", "}", "]">>
      [] k = 3 -> <<"m", "e", "s", "s", "a", "g", "e", ":", " ", "m">>
      [] k = 4 -> <<"x", ":", " ", "{", "v", "a", "l", "u", "e", ":", " ", "9", "}">>
      [] k = 5 -> <<"x", ":", " ", "[">>
      [] k = 6 -> <<"v", "a", "l", "u", "e", ":", " ", "[">>
      [] k = 7 -> <<"d", "e", "l", "i", "v", "e", "r", "y", "D", "i", "s", "c", "o", "u", "n", "t", "s", "A", "d", "d", ":", " ", "0">>
      [] k = 8 -> <<"m", "e", "s", "s", "a", "g", "e", ":", " ", "\"", "a", "\"", " ", "+", " ", "b">>
      [] k = 9 -> <<"v", "a", "l", "u", "e", ":", "\n", "9">>
      [] k = 10 -> <<"/", "*", " ", "k", " ", "*", "/", " ", "y", ":", " ", "5", ",", " ", "v", "a", "l", "u", "e", ":", " ", "1">>

Items == 1..7

RECURSIVE JoinProps(_)
JoinProps(props) ==
    IF props = <<>> THEN <<>>
    ELSE IF Len(props) = 1 THEN ItemText(props[1])
    ELSE ItemText(props[1]) \o <<",", " ">> \o JoinProps(Tail(props))

BodyOf(props) == <<" ">> \o JoinProps(props) \o <<" ">>

PropSeqs(n) == UNION { [1..k -> Items] : k \in 0..n }

\* The text between the '[' and the candidate's '{': none, or a line break and
\* an indentation of one tab or of two spaces.
Leads == {"inline", "ownline", "spaces"}

LeadText(lead) ==
    IF lead = "inline" THEN <<>>
    ELSE IF lead = "ownline" THEN <<"\n", "\t">>
    ELSE <<"\n", " ", " ">>

SecondSite == <<",", " ", "o", "p", "e", "r", "a", "t", "i", "o", "n", "s", ":", " ", "[", "{", " ", "v", "a", "l", "u", "e", ":", " ", "1", ",", " ", "t", "a", "r", "g", "e", "t", "s", ":", " ", "2", ",", " ", "m", "e", "s", "s", "a", "g", "e", ":", " ", "3", " ", "}", "]">>

\* A second element of the same array, of the legacy shape.
LaterElem ==
    <<",", " ", "{", " ", "v", "a", "l", "u", "e", ":", " ", "1", ",", " ", 
      "t", "a", "r", "g", "e", "t", "s", ":", " ", "2", ",", " ", 
      "m", "e", "s", "s", "a", "g", "e", ":", " ", "3", " ", "}">>

SiteText(g) ==
    CASE g.kind = "cand" ->
           Anchor \o <<" ", "[">> \o LeadText(g.lead) \o <<"{">> \o BodyOf(g.props)
                  \o <<"}", "]">>
      [] g.kind = "open" ->
           Anchor \o <<" ", "[">> \o LeadText(g.lead) \o <<"{">> \o BodyOf(g.props)
      [] g.kind = "empty" -> Anchor \o <<" ", "[">> \o LeadText(g.lead) \o <<"]">>
      [] g.kind = "noarr" -> Anchor \o <<" ", "x">> \o LeadText(g.lead)
      [] g.kind = "none" -> <<"x">> \o LeadText(g.lead) \o BodyOf(g.props)
      [] g.kind = "pair" ->
           Anchor \o <<" ", "[">> \o LeadText(g.lead) \o <<"{">> \o BodyOf(g.props)
                  \o <<"}">> \o LaterElem \o <<"]">>

Render(g) ==
    <<"r", "e", "t", "u", "r", "n", " ">> \o SiteText(g)
        \o (IF g.second THEN SecondSite ELSE <<>>) \o <<";">>

Gens ==
    [kind : {"cand"}, lead : Leads, props : PropSeqs(MaxProps),
     second : BOOLEAN]
    \cup
    [kind : {"open", "empty", "noarr", "none"}, lead : Leads,
     props : PropSeqs(1), second : BOOLEAN]

\* ------------------------------------------------------ the state machine
NoScan == [pc |-> "none", str |-> <<>>, pos |-> 0, res |-> 0]
NoRun == [pc |-> "none"]

Init ==
    /\ gen \in [{1} -> Gens]
    /\ calls = [c \in DOMAIN gen |-> NewCall(Render(gen[c]))]
    /\ prev = [c \in DOMAIN gen |-> <<>>]
    /\ scan = NoScan
    /\ run = NoRun

\* Faulty variant: searchFrom is one variable shared by all invocations.
StepSharedCursor(c, to) ==
    /\ calls' = [k \in DOMAIN calls |->
                    IF k = c THEN to
                    ELSE [calls[k] EXCEPT !.searchFrom = to.searchFrom]]
    /\ UNCHANGED <<gen, prev, scan, run>>

Step(c, to) ==
    /\ calls' = [calls EXCEPT ![c] = to]
    /\ UNCHANGED <<gen, prev, scan, run>>

Begin ==
    \E c \in DOMAIN calls :
        /\ calls[c].pc = "begin"
        /\ Step(c, BeginStep(calls[c]))

Search ==
    \E c \in DOMAIN calls :
        /\ calls[c].pc = "search"
        /\ \E idx \in {AnchorFrom(calls[c])} :
           \E bi \in {BracketAfter(calls[c], idx)} :
           \E elemStart \in {ElemStartAfter(calls[c].content, bi)} :
           \E elemEnd \in {findBalancedEnd(calls[c].content, elemStart)} :
           \E body \in {Substring(calls[c].content, elemStart + 1, elemEnd)} :
               Step(c, SearchStep(calls[c], idx, bi, elemStart, elemEnd, body))

Match ==
    \E c \in DOMAIN calls :
        /\ calls[c].pc = "match"
        /\ \E i \in {SkipWs(calls[c].body, calls[c].i)} :
           \E j \in {KeyAt(calls[c].body, calls[c].name, i)} :
           \E end \in {ValueEnd(calls[c].body, j)} :
               Step(c, MatchStep(calls[c], i, j, end))

Skip ==
    \E c \in DOMAIN calls :
        /\ calls[c].pc = "skip"
        /\ \E i \in {SkipToken(calls[c].body, calls[c].i)} :
               Step(c, SkipStep(calls[c], i))

Check ==
    \E c \in DOMAIN calls :
        /\ calls[c].pc = "check"
        /\ \E ls \in {LineStart(calls[c].content, calls[c].elemStart)} :
           \E elemIndent \in {ElemIndent(calls[c].content, ls, calls[c].elemStart)} :
               Step(c, CheckStep(calls[c], ls, elemIndent))

\* The caller applies the Driver to the output of a finished first run.
Reapply ==
    \E c \in DOMAIN calls :
        /\ calls[c].pc = "done"
        /\ prev[c] = <<>>
        /\ prev' = [prev EXCEPT ![c] = <<calls[c].out>>]
        /\ calls' = [calls EXCEPT ![c] = NewCall(calls[c].out)]
        /\ UNCHANGED <<gen, scan, run>>

Next == Begin \/ Search \/ Match \/ Skip \/ Check \/ Reapply

Spec == Init /\ [][Next]_vars

\* A running call keeps executing: each pass of a loop is followed by the next.
FairSpec == Spec /\ WF_vars(Next)

\* ------------------------------------------------ two calls at a time
\* Two invocations on buffers of their own, their steps interleaved in any
\* order.
PairProps == {<<>>, <<5>>, <<3, 1, 2>>}

PairGens ==
    {g \in Gens : g.kind \in {"cand", "noarr"} /\ g.lead = "ownline"
                   /\ g.props \in PairProps}

PairInit ==
    /\ gen \in [{1, 2} -> PairGens]
    /\ calls = [c \in DOMAIN gen |-> NewCall(Render(gen[c]))]
    /\ prev = [c \in DOMAIN gen |-> <<>>]
    /\ scan = NoScan
    /\ run = NoRun

PairNext == Begin \/ Search \/ Match \/ Skip \/ Check

SpecPair == PairInit /\ [][PairNext]_vars

\* ------------------------------------------ candidates of further shapes
\* Candidates whose properties are, besides items 1, 2 and 3: a message that is
\* a string followed by more of an expression (8), a value that starts on the
\* line after its colon (9), a comment and a property of another name before a
\* value (10);
\* alone in their array or followed by a second element of the legacy shape,
\* each on a line of its own.
MoreItems == {1, 2, 3, 8, 9, 10}

MoreGens ==
    [kind : {"cand", "pair"}, lead : {"ownline"},
     props : UNION { [1..k -> MoreItems] : k \in 0..MaxProps }, second : BOOLEAN]

MoreInit ==
    /\ gen \in [{1} -> MoreGens]
    /\ calls = [c \in DOMAIN gen |-> NewCall(Render(gen[c]))]
    /\ prev = [c \in DOMAIN gen |-> <<>>]
    /\ scan = NoScan
    /\ run = NoRun

MoreNext == Begin \/ Search \/ Match \/ Skip \/ Check

SpecMore == MoreInit /\ [][MoreNext]_vars

\* ------------------------------------------- a findBalancedEnd call alone
\* Scanned texts: an opener followed by up to MaxFrags fragments, each a
\* bracket, a plain character or a whole literal.
ScanFrags ==
    { <<"{">>, <<"}">>, <<"[">>, <<"]">>, <<"a">>,
      <<"\"", "}", "\"">>,
      <<"'", "{", "]", "'">>,
      <<"\"", "\\", "\"", "}", "\"">>,
      <<Backtick, "}", Backtick>>,
      <<Backtick, "$", "{", "a", "}", "]", Backtick>>,
      <<Backtick, "$", "{", "\"", "{", "\"", "}", Backtick>> }

ScanTexts ==
    { <<o>> \o Concat(fs) :
        o \in {"{", "["},
        fs \in UNION { [1..n -> ScanFrags] : n \in 0..MaxFrags } }

ScanInit ==
    /\ scan \in [pc : {"call"}, str : ScanTexts, pos : {0}, res : {0}]
    /\ calls = <<>>
    /\ gen = <<>>
    /\ prev = <<>>
    /\ run = NoRun

ScanCall ==
    /\ scan.pc = "call"
    /\ scan' = [scan EXCEPT !.pc = "returned", !.res = findBalancedEnd(scan.str, scan.pos)]
    /\ UNCHANGED <<calls, gen, prev, run>>

ScanNext == ScanCall

SpecScan == ScanInit /\ [][ScanNext]_vars

\* ----------------------------------- a skipQuoted or skipTemplate call alone
\* Quoted texts: a quote followed by up to MaxFrags characters, among them both
\* quotes and the backslash.
QuotedChars == {"\"", "'", "\\", "a"}

QuotedTexts ==
    { <<q>> \o cs : q \in {"\"", "'"},
                    cs \in UNION { [1..n -> QuotedChars] : n \in 0..MaxFrags } }

\* Template texts: a backtick followed by up to MaxFrags fragments: a plain
\* character, an escaped backtick, a backtick, and interpolations holding a
\* name, a string with a brace, a nested template with a brace, an object.
TemplateFrags ==
    { <<"a">>, <<"\\", Backtick>>, <<Backtick>>,
      <<"$", "{", "a", "}">>,
      <<"$", "{", "\"", "}", "\"", "}">>,
      <<"$", "{", "\"", "{", "\"", "}">>,
      <<"$", "{", Backtick, "}", Backtick, "}">>,
      <<"$", "{", "{", "a", "}", "}">> }

TemplateTexts ==
    { <<Backtick>> \o Concat(fs) :
        fs \in UNION { [1..n -> TemplateFrags] : n \in 0..MaxFrags } }

LexInit ==
    /\ scan \in [pc : {"quoted"}, str : QuotedTexts, pos : {0}, res : {0}]
                 \cup [pc : {"template"}, str : TemplateTexts, pos : {0}, res : {0}]
    /\ calls = <<>>
    /\ gen = <<>>
    /\ prev = <<>>
    /\ run = NoRun

LexQuoted ==
    /\ scan.pc = "quoted"
    /\ scan' = [scan EXCEPT !.pc = "quotedReturned", !.res = skipQuoted(scan.str, scan.pos)]
    /\ UNCHANGED <<calls, gen, prev, run>>

LexTemplate ==
    /\ scan.pc = "template"
    /\ scan' = [scan EXCEPT !.pc = "templateReturned",
                            !.res = skipTemplate(scan.str, scan.pos)]
    /\ UNCHANGED <<calls, gen, prev, run>>

LexNext == LexQuoted \/ LexTemplate

SpecLex == LexInit /\ [][LexNext]_vars

\* ------------------------------------------------- a run of the tool
\* An extension as main reads it from its shopify.extension.toml: its type,
\* whether its api_version equals the target API version, and for a Function
\* whether its target starts with "cart.", is a key of FUNCTION_TARGET_MAP
\* ("purchase") or neither.
ExtKinds ==
    [type : {"function"}, atTarget : BOOLEAN, target : {"cart", "purchase", "unmapped"}]
    \cup [type : {"ui_extension"}, atTarget : BOOLEAN, target : {"none"}]
    \cup [type : {"other"}, atTarget : {FALSE}, target : {"none"}]

ExtSeqs == UNION { [1..n -> ExtKinds] : n \in 0..MaxExts }

\* What the run writes to, removes or installs into: the files of extension k,
\* the node_modules npm install fills for extension k, the top-level
\* package-lock.json and node_modules, and migration.json.
ExtFiles(k) == <<"ext", k>>
ExtInstall(k) == <<"install", k>>
TopLevel == <<"top", 0>>
MIGRATION_LOG_FILE == <<"migration.json", 0>>

AlreadyAtTarget == "Already at target version"
NoMapping == "No target mapping available"
UserDeclined == "User declined"
NoReason == "none"

\* extensionDirs.filter(e => e.type === t), as indices into extensionDirs.
OfType(exts, t) ==
    SelectSeq([k \in 1..Len(exts) |-> k], LAMBDA k : exts[k].type = t)

\* The locals of main and of the migrateFunction / migrateUIExtension call in
\* progress. pc: "start", "next" (the head of the two for loops), "prompt"
\* (awaiting confirm), "apply", "log" (line 1359), "end", "exit" (process.exit).
NewRun(dryRun, autoApprove, force, exts) ==
    [pc |-> "start", dryRun |-> dryRun, autoApprove |-> autoApprove, force |-> force,
     exts |-> exts, todo |-> <<>>, cur |-> 0, planned |-> {}, answers |-> {},
     written |-> {}, log |-> <<>>]

\* migrationLog.extensions.push({ name, path, ...result })
Logged(r, migrated, reason) ==
    [r EXCEPT !.log = Append(@, [ext |-> r.cur, type |-> r.exts[r.cur].type,
                                 migrated |-> migrated, reason |-> reason]),
              !.pc = "next"]

\* Faulty variant: UI extensions are processed before Functions.
DiscoverStepUIFirst(r) ==
    IF Len(r.exts) = 0 THEN [r EXCEPT !.pc = "exit"]
    ELSE [r EXCEPT !.pc = "next",
                   !.todo = OfType(r.exts, "ui_extension") \o OfType(r.exts, "function")]

\* main, lines 1206-1277: with no extension found the process exits; else the
\* Functions and then the UI extensions are to be processed.
DiscoverStep(r) ==
    IF Len(r.exts) = 0 THEN [r EXCEPT !.pc = "exit"]
    ELSE [r EXCEPT !.pc = "next",
                   !.todo = OfType(r.exts, "function") \o OfType(r.exts, "ui_extension")]

\* Faulty variant: a Function is never skipped for its api_version.
PlanFunctionNoSkip(ext, force) ==
    IF ext.target = "cart" THEN "plan"
    ELSE IF ext.target = "unmapped" THEN NoMapping
    ELSE "plan"

\* migrateFunction up to its prompt: the reason of an early return, or "plan"
\* when changes are planned.
PlanFunction(ext, force) ==
    IF ext.target = "cart"
    THEN IF ext.atTarget /\ ~force THEN AlreadyAtTarget ELSE "plan"
    ELSE IF ext.target = "unmapped" THEN NoMapping
    ELSE "plan"

\* migrateUIExtension up to its prompt.
PlanUIExtension(ext, force) ==
    IF ext.atTarget /\ ~force THEN AlreadyAtTarget ELSE "plan"

\* The next extension is taken up: early return, prompt, or straight to apply.
PlanStep(r) ==
    LET k == Head(r.todo)
        t == [r EXCEPT !.cur = k, !.todo = Tail(@)]
        outcome == IF r.exts[k].type = "function" THEN PlanFunction(r.exts[k], r.force)
                   ELSE PlanUIExtension(r.exts[k], r.force)
    IN  IF outcome # "plan" THEN Logged(t, FALSE, outcome)
        ELSE [t EXCEPT !.planned = @ \cup {k},
                       !.pc = IF ~r.autoApprove THEN "prompt" ELSE "apply"]

\* Faulty variant: the changes are applied whatever the answer.
AnswerStepIgnored(r, proceed) ==
    [r EXCEPT !.answers = @ \cup {<<r.cur, proceed>>}, !.pc = "apply"]

\* const proceed = await confirm(...); if (!proceed) return { migrated: false, ... }
AnswerStep(r, proceed) ==
    LET t == [r EXCEPT !.answers = @ \cup {<<r.cur, proceed>>}]
    IN  IF ~proceed THEN Logged(t, FALSE, UserDeclined)
        ELSE [t EXCEPT !.pc = "apply"]

\* if (!dryRun) changes.forEach(c => c.apply()); return { migrated: true, ... }
ApplyStep(r) ==
    Logged([r EXCEPT !.written = IF ~r.dryRun THEN @ \cup {ExtFiles(r.cur)} ELSE @],
           TRUE, NoReason)

\* migrationLog.extensions.filter(e => e.migrated && e.type === "ui_extension")
MigratedUI(r) ==
    {r.log[n].ext : n \in {m \in 1..Len(r.log) :
                              r.log[m].migrated /\ r.log[m].type = "ui_extension"}}

\* main, lines 1308-1357, after the loops: the top-level clean-up and the npm
\* installs; topFiles and pkgJson tell which of the files looked for exist.
FinishStep(r, topFiles, pkgJson) ==
    LET ui == MigratedUI(r)
    IN  IF ui # {} /\ ~r.dryRun
        THEN [r EXCEPT !.pc = "log",
                       !.written = @ \cup (IF topFiles THEN {TopLevel} ELSE {})
                                     \cup (IF pkgJson THEN {ExtInstall(k) : k \in ui}
                                           ELSE {})]
        ELSE [r EXCEPT !.pc = "log"]

\* writeFile(logPath, JSON.stringify(migrationLog, null, 2));
WriteLogStep(r) == [r EXCEPT !.pc = "end", !.written = @ \cup {MIGRATION_LOG_FILE}]

RunInit ==
    /\ run \in { NewRun(d, a, f, e) : d \in BOOLEAN, a \in BOOLEAN, f \in BOOLEAN,
                                        e \in ExtSeqs }
    /\ calls = <<>>
    /\ gen = <<>>
    /\ prev = <<>>
    /\ scan = NoScan

RunTo(r) == run' = r /\ UNCHANGED <<calls, gen, prev, scan>>

RunDiscover == run.pc = "start" /\ RunTo(DiscoverStep(run))

RunPlan == run.pc = "next" /\ run.todo # <<>> /\ RunTo(PlanStep(run))

RunAnswer == run.pc = "prompt" /\ \E proceed \in BOOLEAN : RunTo(AnswerStep(run, proceed))

RunApply == run.pc = "apply" /\ RunTo(ApplyStep(run))

RunFinish ==
    /\ run.pc = "next"
    /\ run.todo = <<>>
    /\ \E topFiles \in BOOLEAN, pkgJson \in BOOLEAN : RunTo(FinishStep(run, topFiles, pkgJson))

RunWriteLog == run.pc = "log" /\ RunTo(WriteLogStep(run))

RunNext == RunDiscover \/ RunPlan \/ RunAnswer \/ RunApply \/ RunFinish \/ RunWriteLog

SpecRun == RunInit /\ [][RunNext]_vars

\* ------------------------------------------------ literals, as JavaScript
\* reads them (what the claims about the scanner are measured against)
RECURSIVE BackslashesBefore(_, _)
BackslashesBefore(str, j) ==
    IF At(str, j - 1) = "\\" THEN 1 + BackslashesBefore(str, j - 1) ELSE 0

\* Offset just past the string literal opened at i, Len(str) when unterminated.
LitStringEnd(str, i) ==
    LET closers == { j \in (i + 1)..(Len(str) - 1) :
                       /\ At(str, j) = At(str, i)
                       /\ \A k \in (i + 1)..(j - 1) :
                            At(str, k) = At(str, i) => BackslashesBefore(str, k) % 2 = 1
                       /\ BackslashesBefore(str, j) % 2 = 0 }
    IN  IF closers = {} THEN Len(str) ELSE 1 + CHOOSE j \in closers : TRUE

\* Template literals: an interpolation ${ ... } is an expression, in which
\* strings and nested templates are literals again and braces nest.
RECURSIVE LitTemplateFrom(_, _)
RECURSIVE LitInterpolationFrom(_, _, _)
LitTemplateFrom(str, i) ==
    IF i >= Len(str) THEN Len(str)
    ELSE IF At(str, i) = "\\" THEN LitTemplateFrom(str, i + 2)
    ELSE IF At(str, i) = "$" /\ At(str, i + 1) = "{"
         THEN LitTemplateFrom(str, LitInterpolationFrom(str, i + 2, 1))
    ELSE IF At(str, i) = Backtick THEN i + 1
    ELSE LitTemplateFrom(str, i + 1)

LitInterpolationFrom(str, i, d) ==
    IF i >= Len(str) THEN Len(str)
    ELSE LET ch == At(str, i) IN
         IF ch = "\"" \/ ch = "'" THEN LitInterpolationFrom(str, LitStringEnd(str, i), d)
         ELSE IF ch = Backtick THEN LitInterpolationFrom(str, LitTemplateFrom(str, i + 1), d)
         ELSE IF ch = "{" THEN LitInterpolationFrom(str, i + 1, d + 1)
         ELSE IF ch = "}" THEN (IF d = 1 THEN i + 1 ELSE LitInterpolationFrom(str, i + 1, d - 1))
         ELSE LitInterpolationFrom(str, i + 1, d)

LitTemplateEnd(str, i) == LitTemplateFrom(str, i + 1)

\* The offsets >= i that lie outside every string and template literal.
RECURSIVE CodeOffsets(_, _)
CodeOffsets(str, i) ==
    IF i >= Len(str) THEN {}
    ELSE LET ch == At(str, i) IN
         IF ch = "\"" \/ ch = "'" THEN CodeOffsets(str, LitStringEnd(str, i))
         ELSE IF ch = Backtick THEN CodeOffsets(str, LitTemplateEnd(str, i))
         ELSE {i} \cup CodeOffsets(str, i + 1)

\* The closer matching the opener at pos: the first closer of its type outside
\* literals at which openers and closers of that type balance; -1 if none.
MatchingCloser(str, pos) ==
    LET code == CodeOffsets(str, pos)
        open == At(str, pos)
        close == CloserOf(open)
        opens(j) == Cardinality({k \in code : k <= j /\ At(str, k) = open})
        closes(j) == Cardinality({k \in code : k <= j /\ At(str, k) = close})
        ends == {j \in code : At(str, j) = close /\ opens(j) = closes(j)}
    IN  IF ends = {} THEN -1 ELSE CHOOSE j \in ends : \A k \in ends : j <= k

\* C4: findBalancedEnd, called at an opener that has a matching closer, returns the
\* offset of that closer; bracket characters inside string and template literals
\* never change the result.
C4_FindBalancedEndMatches ==
    (scan.pc = "returned" /\ MatchingCloser(scan.str, scan.pos) # -1)
        => scan.res = MatchingCloser(scan.str, scan.pos)

\* ------------------------------------------------------------- the Driver
Range(f) == {f[k] : k \in DOMAIN f}

\* Call c is in its first run and that run has returned.
Returned(c) == calls[c].pc = "done" /\ prev[c] = <<>>

\* The returned buffer differs from the input: a candidate was rewritten.
Migrated(c) == Returned(c) /\ calls[c].out # calls[c].content

\* The number of characters of the input that follow the candidate's '}'.
AfterLen(c) == Len(calls[c].content) - calls[c].elemEnd - 1

\* C1: a migration replaces exactly the candidate's span: the text before its
\* opening brace and the text after its closing brace are in the output unchanged.
C1_OnlyCandidateSpanReplaced ==
    \A c \in DOMAIN calls :
        Migrated(c) =>
            /\ Substring(calls[c].out, 0, calls[c].elemStart)
                 = Substring(calls[c].content, 0, calls[c].elemStart)
            /\ SubstringFrom(calls[c].out, Len(calls[c].out) - AfterLen(c))
                 = SubstringFrom(calls[c].content, calls[c].elemEnd + 1)

\* C2: every call of the Driver returns: no loop of the Driver or of
\* extractProp repeats forever.
C2_DriverTerminates == <>(calls[1].pc = "done")

\* C3: the Driver applied to its own output returns that output.
C3_Idempotent ==
    \A c \in DOMAIN calls :
        (calls[c].pc = "done" /\ prev[c] # <<>>) => calls[c].out = prev[c][1]

\* A first run rewrote a candidate and the second run has returned.
C3_Witness ==
    \E c \in DOMAIN calls :
        /\ calls[c].pc = "done"
        /\ prev[c] # <<>>
        /\ prev[c][1] # Render(gen[c])
        /\ gen[c].second

\* The first site of the input is the site the call is working on, or has accepted.
AtFirstSite(c) == prev[c] = <<>> /\ calls[c].pc # "begin" /\ calls[c].searchFrom = 0

\* The values of the depth-0 properties of items 1 and 2; each item holds a
\* property of the same name inside its own value, and item 4 holds a nested
\* value inside a child object.
TopValue == <<"{", "v", "a", "l", "u", "e", ":", " ", "1", "}">>
TopTargets ==
    <<"[", "\n", "{", "t", "a", "r", "g", "e", "t", "s", ":", " ", "2", "}", "]">>
WellFormedItems == {1, 2, 3, 4}

\* C5: for a body with property P at depth 0 and another P inside a child object
\* or array, before or after it, extractProp returns the value of the depth-0 P.
C5_DepthZeroProperty ==
    \A c \in DOMAIN calls :
        (AtFirstSite(c) /\ gen[c].kind = "cand"
                        /\ Range(gen[c].props) \subseteq WellFormedItems) =>
            /\ (calls[c].valueP.st # "unset" /\ 1 \in Range(gen[c].props))
                   => (calls[c].valueP.st = "value" /\ calls[c].valueP.value = TopValue)
            /\ (calls[c].targetsP.st # "unset" /\ 2 \in Range(gen[c].props))
                   => (calls[c].targetsP.st = "value"
                       /\ calls[c].targetsP.value = TopTargets)

\* The nested value of item 4 lies before the depth-0 value, and extractProp has
\* returned for both names.
C5_Witness ==
    \E c \in DOMAIN calls :
        /\ AtFirstSite(c)
        /\ gen[c].kind = "cand"
        /\ gen[c].props = <<4, 1, 2>>
        /\ calls[c].valueP.value = TopValue
        /\ calls[c].targetsP.value = TopTargets

\* Text with the leading whitespace of every line removed.
Unindent(text) ==
    LET lines == SplitLines(text)
    IN  JoinLines([k \in 1..Len(lines) |-> SubstringFrom(lines[k], SkipWs(lines[k], 0))])

\* The text the rewrite put in place of the candidate (from the start of its line).
Block(c) ==
    Substring(calls[c].out, LineStart(calls[c].content, calls[c].elemStart),
              Len(calls[c].out) - AfterLen(c))

BlockHead ==
    <<"{", "\n", "d", "e", "l", "i", "v", "e", "r", "y", "D", "i", "s", "c", "o", "u",
      "n", "t", "s", "A", "d", "d", ":", " ", "{", "\n", "s", "e", "l", "e", "c", "t",
      "i", "o", "n", "S", "t", "r", "a", "t", "e", "g", "y", ":", " ", "\"", "A", "L",
      "L", "\"", ",", "\n", "c", "a", "n", "d", "i", "d", "a", "t", "e", "s", ":", " ",
      "[", "\n", "{", "\n", "t", "a", "r", "g", "e", "t", "s", ":", " ">>
BlockValue == <<",", "\n", "v", "a", "l", "u", "e", ":", " ">>
BlockMessage == <<",", "\n", "m", "e", "s", "s", "a", "g", "e", ":", " ">>
BlockTail ==
    <<",", "\n", "a", "s", "s", "o", "c", "i", "a", "t", "e", "d", "D", "i", "s", "c",
      "o", "u", "n", "t", "C", "o", "d", "e", ":", " ", "n", "u", "l", "l", ",", "\n",
      "}", ",", "\n", "]", ",", "\n", "}", ",", "\n", "}">>

ExpectedBlock(c) ==
    BlockHead \o calls[c].targetsP.value \o BlockValue \o calls[c].valueP.value
        \o BlockMessage \o Trim(calls[c].messageP.value) \o BlockTail

\* C6: the block put in place of a migrated candidate is, indentation aside, an
\* object with the one field deliveryDiscountsAdd holding selectionStrategy: "ALL"
\* and candidates with one element: targets, value, message (the extracted texts;
\* message trimmed) and associatedDiscountCode: null, in this order.
C6_BlockShape ==
    \A c \in DOMAIN calls :
        Migrated(c) => Unindent(Block(c)) = Unindent(ExpectedBlock(c))

\* A candidate with a value of several lines was migrated.
C6_Witness ==
    \E c \in DOMAIN calls :
        /\ Migrated(c)
        /\ Includes(calls[c].targetsP.value, <<"\n">>)
        /\ gen[c].lead = "ownline"

\* extractProp found all three properties in the candidate looked at last.
AllFound(c) ==
    /\ calls[c].valueP.st = "value"
    /\ calls[c].targetsP.st = "value"
    /\ calls[c].messageP.st = "value"

\* C7: with no anchor in the buffer, or every candidate rejected, the output is
\* the input.
C7_UnchangedWithoutCandidate ==
    \A c \in DOMAIN calls :
        (calls[c].pc = "done" /\ (~Includes(calls[c].content, Anchor) \/ ~AllFound(c)))
            => calls[c].out = calls[c].content

\* A candidate lacking its message was rejected, the search went on to the end
\* of the buffer, and the call has returned.
C7_Witness ==
    \E c \in DOMAIN calls :
        /\ Returned(c)
        /\ calls[c].iters >= 2
        /\ calls[c].valueP.st = "value"
        /\ calls[c].messageP.st = "null"
        /\ calls[c].out = calls[c].content

\* The first candidate's body holds the marker.
MarkerInFirstCandidate(c) == gen[c].kind = "cand" /\ 7 \in Range(gen[c].props)

FirstSiteRejectable(g) ==
    \/ g.kind \in {"noarr", "empty", "open"}
    \/ /\ g.kind = "cand"
       /\ \/ Range(g.props) \cap {1, 6} = {}
          \/ 2 \notin Range(g.props)
          \/ 3 \notin Range(g.props)

\* C9: a rejected site is passed over: the search resumes behind it and the
\* legacy candidate at a later anchor is migrated.
C9_RejectionTriesNext ==
    (/\ prev[1] = <<>>
     /\ FirstSiteRejectable(gen[1])
     /\ gen[1].second
     /\ 7 \notin Range(gen[1].props))
        ~> (calls[1].pc = "done" /\ calls[1].out # calls[1].content)

\* C10: extractProp reports no value when the value of the sought property
\* begins with an opener that has no matching closer in the body.
C10_UnmatchedOpenerIsNotFound ==
    \A c \in DOMAIN calls :
        \A r \in {calls[c].valueP, calls[c].targetsP, calls[c].messageP} :
            (r.st = "value" /\ At(calls[c].body, r.start) \in {"{", "["})
                => MatchingCloser(calls[c].body, r.start) # -1

\* -------------------------------------------------- one site per call
\* The number of offsets at which pat occurs in str.
Occurrences(str, pat) ==
    Cardinality({i \in 0..(Len(str) - Len(pat)) : StartsWithAt(str, pat, i)})

\* The input holds two eligible legacy candidates: the first site is a candidate
\* with value, targets and message at its top level, every opener closed and no
\* marker, and the second site follows it.
TwoEligible(g) ==
    /\ g.kind = "cand"
    /\ {1, 2, 3} \subseteq Range(g.props)
    /\ Range(g.props) \subseteq WellFormedItems
    /\ g.second

\* The text of the input from the second site on.
LaterSite == SecondSite \o <<";">>

\* C11: with two eligible legacy candidates in the buffer the call rewrites the
\* first one only: the later one is in the output unchanged and the output holds
\* the wrapper name deliveryDiscountsAdd exactly once.
C11_OneSitePerCall ==
    \A c \in DOMAIN calls :
        (Returned(c) /\ TwoEligible(gen[c])) =>
            /\ Migrated(c)
            /\ calls[c].elemEnd < Len(calls[c].content) - Len(LaterSite)
            /\ SubstringFrom(calls[c].out, Len(calls[c].out) - Len(LaterSite)) = LaterSite
            /\ Occurrences(calls[c].out, Marker) = 1

\* A buffer with two eligible candidates, the first on a line of its own, was
\* rewritten.
C11_Witness ==
    \E c \in DOMAIN calls :
        /\ Migrated(c)
        /\ TwoEligible(gen[c])
        /\ gen[c].lead = "ownline"

\* ------------------------------------------------------- indentation
\* A tab when some newline of the text is directly followed by a tab, two
\* spaces otherwise.
UnitOf(text) ==
    IF \E i \in 1..(Len(text) - 1) : text[i] = "\n" /\ text[i + 1] = "\t"
    THEN <<"\t">> ELSE <<" ", " ">>

\* The whitespace a line begins with.
LeadingWs(line) == Substring(line, 0, SkipWs(line, 0))

\* The candidate's base indentation: the whitespace its line begins with.
BaseIndent(c) ==
    LeadingWs(Substring(calls[c].content,
                        LineStart(calls[c].content, calls[c].elemStart),
                        calls[c].elemStart))

\* The whitespace in front of the lines of a value after its first one, when
\* `extra` is put in front of every such line that is not blank.
ContinuationIndents(value, extra) ==
    LET lines == SplitLines(value)
    IN  [k \in 1..(Len(lines) - 1) |->
            IF Trim(lines[k + 1]) = <<>> THEN LeadingWs(lines[k + 1])
            ELSE extra \o LeadingWs(lines[k + 1])]

\* The whitespace each line of the new block is to begin with: the base
\* indentation and 0 to 4 units by nesting level, and 3 units added to the
\* lines of targets and value after their first.
ExpectedIndents(c) ==
    LET u == UnitOf(calls[c].content)
        lvl(n) == BaseIndent(c) \o Repeat(u, n)
    IN  <<lvl(0), lvl(1), lvl(2), lvl(2), lvl(3), lvl(4)>>
        \o ContinuationIndents(calls[c].targetsP.value, Repeat(u, 3))
        \o <<lvl(4)>>
        \o ContinuationIndents(calls[c].valueP.value, Repeat(u, 3))
        \o <<lvl(4)>>
        \o ContinuationIndents(Trim(calls[c].messageP.value), <<>>)
        \o <<lvl(4), lvl(3), lvl(2), lvl(1), lvl(0)>>

BlockIndents(c) ==
    LET lines == SplitLines(Block(c))
    IN  [k \in 1..Len(lines) |-> LeadingWs(lines[k])]

\* C12: the unit is a tab when some newline of the buffer is directly followed
\* by a tab and two spaces otherwise, and every line of the new block begins
\* with the candidate's base indentation and whole units only: 0 to 4 units by
\* nesting level, 3 units in front of the reindented lines.
C12_IndentationByUnit ==
    \A c \in DOMAIN calls :
        /\ calls[c].unit # <<>> => calls[c].unit = UnitOf(calls[c].content)
        /\ Migrated(c) => BlockIndents(c) = ExpectedIndents(c)

\* A candidate indented by a tab, with a value of several lines, was rewritten
\* with the tab as unit.
C12_Witness ==
    \E c \in DOMAIN calls :
        /\ Migrated(c)
        /\ calls[c].unit = <<"\t">>
        /\ BaseIndent(c) = <<"\t">>
        /\ Len(SplitLines(calls[c].targetsP.value)) > 1

\* ----------------------------------------------------- runs of the tool
\* C13: in a run with --dry-run no file is created, modified or deleted.
C13_DryRunWritesNothing == run.dryRun => run.written = {}

\* The extensions the user has answered yes (TRUE) or no (FALSE) for.
Answered(proceed) == {k \in 1..Len(run.exts) : <<k, proceed>> \in run.answers}

\* The log entries of extension k.
EntriesOf(k) == {n \in 1..Len(run.log) : run.log[n].ext = k}

\* The extensions main processes, in its order.
Processed == OfType(run.exts, "function") \o OfType(run.exts, "ui_extension")

\* C14: without --auto-approve the files of an extension are changed only after
\* the user has answered yes for it; a declined extension has none of its files
\* changed and the result migrated=false, "User declined", and the run goes on:
\* at its end every Function and UI extension has its result.
C14_NoChangeBeforeYes ==
    ~run.autoApprove =>
        /\ \A k \in 1..Len(run.exts) :
               ({ExtFiles(k), ExtInstall(k)} \cap run.written # {}) => k \in Answered(TRUE)
        /\ \A k \in Answered(FALSE) :
               /\ {ExtFiles(k), ExtInstall(k)} \cap run.written = {}
               /\ EntriesOf(k) # {}
               /\ \A n \in EntriesOf(k) :
                      ~run.log[n].migrated /\ run.log[n].reason = UserDeclined
        /\ run.pc = "end" => Len(run.log) = Len(Processed)

\* The user declined one extension and approved a later one, whose files were
\* then changed.
C14_Witness ==
    /\ ~run.autoApprove
    /\ run.pc = "end"
    /\ \E k \in Answered(FALSE), j \in Answered(TRUE) :
           /\ ExtFiles(j) \in run.written
           /\ \E n \in EntriesOf(k), m \in EntriesOf(j) : n < m

\* C15 as claimed: without --force every Function and UI extension whose
\* api_version equals the target is skipped: nothing planned or applied, result
\* migrated=false, "Already at target version"; with --force it is processed.
C15_AtTargetSkipped ==
    \A n \in 1..Len(run.log) :
        run.exts[run.log[n].ext].atTarget =>
            IF ~run.force
            THEN /\ ~run.log[n].migrated
                 /\ run.log[n].reason = AlreadyAtTarget
                 /\ run.log[n].ext \notin run.planned
                 /\ ExtFiles(run.log[n].ext) \notin run.written
            ELSE run.log[n].reason # AlreadyAtTarget

\* An extension the version check applies to: a UI extension, or a Function
\* whose target is already a cart.* target.
VersionChecked(ext) ==
    ext.type = "ui_extension" \/ (ext.type = "function" /\ ext.target = "cart")

\* C15 as amended: without --force every UI extension and every Function with
\* a cart.* target whose api_version equals the target is skipped (nothing
\* planned or applied, migrated=false, "Already at target version"); with
\* --force it is processed; a Function with another target is handled by its
\* target whatever its api_version: changes are planned when the target has a
\* mapping, and it is skipped with "No target mapping available" otherwise.
C15_AtTargetSkippedWhenVersionChecked ==
    \A n \in 1..Len(run.log) :
        LET k == run.log[n].ext
            ext == run.exts[k]
        IN  IF VersionChecked(ext)
            THEN ext.atTarget =>
                    IF ~run.force
                    THEN /\ ~run.log[n].migrated
                         /\ run.log[n].reason = AlreadyAtTarget
                         /\ k \notin run.planned
                         /\ ExtFiles(k) \notin run.written
                    ELSE k \in run.planned /\ run.log[n].reason # AlreadyAtTarget
            ELSE IF ext.target = "purchase"
                 THEN k \in run.planned /\ run.log[n].reason # AlreadyAtTarget
                 ELSE ~run.log[n].migrated /\ run.log[n].reason = NoMapping
                      /\ k \notin run.planned

\* A run without --force has skipped a Function with a cart.* target and a UI
\* extension, both at the target version.
C15_Witness ==
    /\ ~run.force
    /\ run.pc = "end"
    /\ \E n, m \in 1..Len(run.log) :
           /\ run.log[n].type = "function" /\ run.log[n].reason = AlreadyAtTarget
           /\ run.log[m].type = "ui_extension" /\ run.log[m].reason = AlreadyAtTarget

\* The run is over.
RunOver == run.pc \in {"end", "exit"}

\* migration.json holds one entry per Function and UI extension found, Functions
\* first, each in discovery order, each telling whether the extension's changes
\* went through (planned and not declined).
LogComplete ==
    /\ MIGRATION_LOG_FILE \in run.written
    /\ [n \in 1..Len(run.log) |-> run.log[n].ext] = Processed
    /\ \A n \in 1..Len(run.log) :
           run.log[n].migrated <=>
               /\ run.log[n].ext \in run.planned
               /\ run.log[n].ext \notin Answered(FALSE)

StepAlone(s) ==
    IF s.pc = "begin" THEN BeginStep(s)
    ELSE IF s.pc = "search"
    THEN LET idx == AnchorFrom(s)
             bi == BracketAfter(s, idx)
             elemStart == ElemStartAfter(s.content, bi)
             elemEnd == findBalancedEnd(s.content, elemStart)
         IN  SearchStep(s, idx, bi, elemStart, elemEnd,
                        Substring(s.content, elemStart + 1, elemEnd))
    ELSE IF s.pc = "match"
    THEN LET i == SkipWs(s.body, s.i)
             j == KeyAt(s.body, s.name, i)
         IN  MatchStep(s, i, j, ValueEnd(s.body, j))
    ELSE IF s.pc = "skip" THEN SkipStep(s, SkipToken(s.body, s.i))
    ELSE LET ls == LineStart(s.content, s.elemStart)
         IN  CheckStep(s, ls, ElemIndent(s.content, ls, s.elemStart))

\* The call run alone from s, for at most `steps` steps.
RECURSIVE RunAlone(_, _)
RunAlone(s, steps) ==
    IF s.pc = "done" \/ steps = 0 THEN s
    ELSE RunAlone(StepAlone(s), steps - 1)

C18_SpanWithinBody ==
    \A c \in DOMAIN calls :
        \A r \in {calls[c].valueP, calls[c].targetsP, calls[c].messageP} :
            r.st = "value" =>
                /\ 0 <= r.start
                /\ r.start <= r.end
                /\ r.end <= Len(calls[c].body)

\* C19: skipQuoted, called at a quote, returns the offset just past the first
\* later occurrence of that quote that no backslash escapes, and the length of
\* the buffer when there is none.
C19_SkipQuotedEnd ==
    scan.pc = "quotedReturned" => scan.res = LitStringEnd(scan.str, scan.pos)

\* The template literal opened at pos has a closing backtick: with one more
\* character behind the text its end still lies within the text.
TemplateCloses(str, pos) == LitTemplateEnd(str \o <<"a">>, pos) <= Len(str)

\* C20: skipTemplate, called at the backtick of a template literal that is
\* closed, returns the offset just past the closing backtick, whatever strings,
\* nested templates or object literals its interpolations hold.
C20_SkipTemplateEnd ==
    (scan.pc = "templateReturned" /\ TemplateCloses(scan.str, scan.pos))
        => scan.res = LitTemplateEnd(scan.str, scan.pos)

\* --------------------------------------------- an extractProp call alone
\* Bodies for the Property Locator: up to MaxParts properties separated by ", ".
\* Parts 1, 2 and 9 are depth-0 properties named value with a plain value (in
\* 1 and 9 a comma follows inside a string and inside brackets); in parts 3, 4,
\* 5 and 10 the name occurs in a nested array, a string, a template and a nested
\* object only; the keys of parts 6 and 7 begin and end with the name; part 8
\* is a template whose interpolation holds a string with a brace and a backtick.
PartText(k) ==
    CASE k = 1 -> <<"v", "a", "l", "u", "e", ":", " ", "a", " ", "+", " ", "\"", "b", ",", "c", "\"">>
      [] k = 2 -> <<"v", "a", "l", "u", "e", ":", " ", "7">>
      [] k = 3 -> <<"x", ":", " ", "[", "{", "v", "a", "l", "u", "e", ":", " ", "9", "}", "]">>
      [] k = 4 -> <<"x", ":", " ", "\"", "v", "a", "l", "u", "e", ":", " ", "9", "\"">>
      [] k = 5 -> <<"x", ":", " ", Backtick, "v", "a", "l", "u", "e", ":", " ", "9", Backtick>>
      [] k = 6 -> <<"v", "a", "l", "u", "e", "X", ":", " ", "8">>
      [] k = 7 -> <<"m", "y", "v", "a", "l", "u", "e", ":", " ", "8">>
      [] k = 8 -> <<"x", ":", " ", Backtick, "$", "{", "\"", "}", Backtick, "\"", "}", Backtick>>
      [] k = 9 -> <<"v", "a", "l", "u", "e", ":", " ", "a", "[", "1", ",", " ", "2", "]">>
      [] k = 10 -> <<"x", ":", " ", "{", "v", "a", "l", "u", "e", ":", " ", "9", "}">>

Parts == 1..10

RECURSIVE JoinParts(_)
JoinParts(ps) ==
    IF ps = <<>> THEN <<>>
    ELSE IF Len(ps) = 1 THEN PartText(ps[1])
    ELSE PartText(ps[1]) \o <<",", " ">> \o JoinParts(Tail(ps))

PartBody(ps) == <<" ">> \o JoinParts(ps) \o <<" ">>

PartSeqs == UNION { [1..k -> Parts] : k \in 0..MaxParts }

\* The Driver's three extractProp calls (lines 531-533) on a body of its own.
PropCall(body) ==
    [NewCall(<<>>) EXCEPT !.pc = "match", !.body = body, !.name = NameValue]

PropInit ==
    /\ gen \in [{1} -> [kind : {"body"}, parts : PartSeqs]]
    /\ calls = [c \in DOMAIN gen |-> PropCall(PartBody(gen[c].parts))]
    /\ prev = [c \in DOMAIN gen |-> <<>>]
    /\ scan = NoScan
    /\ run = NoRun

PropNext == Match \/ Skip

SpecProp == PropInit /\ [][PropNext]_vars

\* The offset at which a plain value that starts at j ends as JavaScript reads
\* the body: the first newline, or the first comma outside every literal and
\* outside every bracket opened within the value; the end of the body if none.
PlainValueEndTopLevel(body, j) ==
    LET code == CodeOffsets(body, j)
        opened(e) == Cardinality({k \in code : k < e /\ At(body, k) \in {"{", "[", "("}})
        closed(e) == Cardinality({k \in code : k < e /\ At(body, k) \in {"}", "]", ")"}})
        ends == {e \in j..(Len(body) - 1) :
                   \/ At(body, e) = "\n"
                   \/ At(body, e) = "," /\ e \in code /\ opened(e) = closed(e)}
    IN  IF ends = {} THEN Len(body) ELSE CHOOSE e \in ends : \A k \in ends : e <= k

\* extractProp took the plain-value branch (lines 477-479) for the value it returned.
PlainValue(r) ==
    r.st = "value" /\ At(r.value, 0) \notin {"{", "[", "\"", "'", Backtick}

\* C21: a plain value (first character not '{', '[', a quote or a backtick) runs up
\* to, and excludes, the next newline or the next comma at the top level of the
\* body; a comma inside a string, template or bracket within the value does not
\* end it.
C21_PlainValueEndsAtTopLevelComma ==
    \A c \in DOMAIN calls :
        (calls[c].valueP.st = "value" /\ PlainValue(calls[c].valueP)
            /\ calls[c].valueP.start < calls[c].valueP.end) =>
            calls[c].valueP.end = PlainValueEndTopLevel(calls[c].body, calls[c].valueP.start)

\* The parts that are a depth-0 property named value.
ValueParts == {1, 2, 9}

\* C22: extractProp returns null whenever the body has no depth-0 property of the
\* sought name: a name followed by a colon that occurs only inside a nested
\* object, a nested array, a string or a template is never returned.
C22_NestedNameIsNotFound ==
    \A c \in DOMAIN calls :
        (gen[c].kind = "body" /\ Range(gen[c].parts) \cap ValueParts = {}
            /\ calls[c].valueP.st # "unset") =>
            calls[c].valueP.st = "null"

\* -------------------------------------------- a reindentLines call alone
\* Texts of up to MaxLines lines: empty, whitespace only, and with characters
\* that are not whitespace, with and without indentation of their own.
LineKinds == { <<>>, <<" ">>, <<"\t">>, <<"a">>, <<"\t", "a">>, <<" ", "b", " ">> }

IndentTexts == { JoinLines(ls) : ls \in UNION { [1..n -> LineKinds] : n \in 1..MaxLines } }

Extras == { <<>>, <<"\t">>, <<" ", " ">> }

IndentInit ==
    /\ scan \in [pc : {"reindent"}, str : IndentTexts, extra : Extras, res : {<<>>}]
    /\ calls = <<>>
    /\ gen = <<>>
    /\ prev = <<>>
    /\ run = NoRun

IndentCall ==
    /\ scan.pc = "reindent"
    /\ scan' = [scan EXCEPT !.pc = "reindented", !.res = reindentLines(scan.str, scan.extra)]
    /\ UNCHANGED <<calls, gen, prev, run>>

SpecIndent == IndentInit /\ [][IndentCall]_vars

\* The lines of a text, by the offsets of its newlines.
NewlinesOf(text) == {k \in 0..(Len(text) - 1) : At(text, k) = "\n"}

LineCount(text) == Cardinality(NewlinesOf(text)) + 1

\* The offset of the n-th newline of the text; -1 for n = 0, the length of the
\* text when it has fewer.
NewlineAt(text, n) ==
    LET nl == NewlinesOf(text) IN
    IF n = 0 THEN -1
    ELSE IF n > Cardinality(nl) THEN Len(text)
    ELSE CHOOSE k \in nl : Cardinality({m \in nl : m < k}) = n - 1

LineAt(text, n) == Substring(text, NewlineAt(text, n - 1) + 1, NewlineAt(text, n))

Blank(line) == \A k \in 1..Len(line) : IsWs(line[k])

Rejects(c) ==
    /\ calls[c].pc \in {"search", "check"}
    /\ calls'[c].pc = "search"

\* C24: the search cursor strictly increases on every rejection, and the number
\* of passes of the while loop in one call is at most the number of occurrences
\* of the anchor in the buffer plus one.
C24_CursorAdvances ==
    /\ [](\A c \in DOMAIN calls :
            calls[c].iters <= Occurrences(calls[c].content, Anchor) + 1)
    /\ [][\A c \in DOMAIN calls :
            Rejects(c) => calls'[c].searchFrom > calls[c].searchFrom]_vars

\* The one anchor of the buffer was followed by no array: it was rejected, and
\* the second pass found no anchor.
C24_Witness ==
    \E c \in DOMAIN calls :
        /\ Returned(c)
        /\ gen[c].kind = "noarr"
        /\ ~gen[c].second
        /\ calls[c].searchFrom > 0
        /\ calls[c].iters = Occurrences(calls[c].content, Anchor) + 1

\* C25: when the marker occurs anywhere in the input buffer, inside or outside
\* a candidate, the Driver returns the input unchanged, and it does so before
\* it looks for an anchor.
C25_MarkerAnywhereReturnsInput ==
    \A c \in DOMAIN calls :
        (Includes(calls[c].content, Marker) /\ calls[c].pc # "begin") =>
            /\ calls[c].pc = "done"
            /\ calls[c].out = calls[c].content
            /\ calls[c].iters = 0
            /\ calls[c].elemStart = -1

\* The marker stands before the first anchor, outside every candidate, a
\* legacy-shaped candidate follows it, and the call has returned.
C25_Witness ==
    \E c \in DOMAIN calls :
        /\ Returned(c)
        /\ gen[c].kind = "none"
        /\ gen[c].props = <<7>>
        /\ gen[c].second
        /\ calls[c].out = Render(gen[c])

\* The element at offset e is the first one of an array that directly follows
\* an anchor.
IntroducedByAnchor(content, e) ==
    \E idx \in 0..Len(content) :
        /\ StartsWithAt(content, Anchor, idx)
        /\ At(content, SkipWs(content, idx + Len(Anchor))) = "["
        /\ SkipWs(content, SkipWs(content, idx + Len(Anchor)) + 1) = e

\* C26: for each anchor only the first element of the array is looked at: a later
\* element of the same array is never rewritten, even of the legacy shape; the
\* element a call rewrites is one that an anchor directly introduces.
C26_OnlyFirstElement ==
    \A c \in DOMAIN calls :
        /\ Migrated(c) => IntroducedByAnchor(calls[c].content, calls[c].elemStart)
        /\ (Returned(c) /\ gen[c].kind = "pair" /\ ~gen[c].second /\ ~AllFound(c))
               => calls[c].out = calls[c].content

\* The first element lacked value and targets and was rejected, the array's
\* second element has the legacy shape, and the call returned its input.
C26_Witness ==
    \E c \in DOMAIN calls :
        /\ Returned(c)
        /\ gen[c].kind = "pair"
        /\ gen[c].props = <<3>>
        /\ ~gen[c].second
        /\ calls[c].messageP.st = "value"
        /\ calls[c].out = calls[c].content

\* What the bodies hold besides the values of value, targets and message: the
\* rest of the expression after the string of item 8, the comment and the
\* property y of item 10.
OtherContent ==
    { <<"+", " ", "b">>, <<"/", "*", " ", "k", " ", "*", "/">>, <<"y", ":", " ", "5">> }

C28_NoEmptyValueAccepted ==
    \A c \in DOMAIN calls :
        Migrated(c) =>
            /\ reindentLines(calls[c].targetsP.value, Repeat(calls[c].unit, 3)) # <<>>
            /\ reindentLines(calls[c].valueP.value, Repeat(calls[c].unit, 3)) # <<>>
            /\ Trim(calls[c].messageP.value) # <<>>

\* ------------------------------------------------ extractProp, continued
\* The offset before which only spaces lie back to offset k (k itself excluded).
SpacesBack(body, k) ==
    CHOOSE m \in 0..k :
        /\ \A n \in m..(k - 1) : At(body, n) = " "
        /\ m = 0 \/ At(body, m - 1) # " "

\* The value at offset start is preceded by the whole key `name`: spaces, a
\* colon, spaces, the name, and before the name no character of a longer key.
WholeKeyBefore(body, name, start) ==
    LET colon == SpacesBack(body, start) - 1
        stop == SpacesBack(body, colon)
        first == stop - Len(name)
    IN  /\ At(body, colon) = ":"
        /\ first >= 0
        /\ Substring(body, first, stop) = name
        /\ first = 0 \/ StopsToken(At(body, first - 1))

\* The parts whose key begins (6) or ends (7) with the name value.
LongerKeyParts == {6, 7}

\* C29: the sought name is matched as a whole key at the start of a token only:
\* a depth-0 property whose name begins with it (valueX) or ends with it
\* (myvalue) is not returned as the sought property.
C29_WholeKeyOnly ==
    \A c \in DOMAIN calls :
        /\ (gen[c].kind = "body" /\ Range(gen[c].parts) \subseteq LongerKeyParts
               /\ calls[c].valueP.st # "unset") => calls[c].valueP.st = "null"
        /\ calls[c].valueP.st = "value"
               => WholeKeyBefore(calls[c].body, NameValue, calls[c].valueP.start)

\* A body with the keys valueX and myvalue and no key value: null was returned.
C29_Witness ==
    \E c \in DOMAIN calls :
        /\ gen[c].kind = "body"
        /\ gen[c].parts = <<6, 7>>
        /\ calls[c].valueP.st = "null"

\* ------------------------------------- the engine of upgrade-functions.js
\* upgrade-functions.js holds functions of the same names (lines 208-373); they
\* are translated here from that file, each under its name with the prefix UF_.
\* What JavaScript itself provides (substring, indexOf, split, trim, ...) is
\* shared.
RECURSIVE UF_SkipQuotedFrom(_, _, _)
UF_SkipQuotedFrom(str, q, i) ==
    CHOOSE r \in {
    IF k >= Len(str) THEN k
    ELSE IF At(str, k) = "\\" THEN UF_SkipQuotedFrom(str, q, k + 2)
    ELSE k + 1 : k \in {FirstAt(str, i, LAMBDA ch : ch = "\\" \/ ch = q)} } : TRUE

UF_skipQuoted(str, pos) == UF_SkipQuotedFrom(str, At(str, pos), pos + 1)

\* The inner loop of UF_skipTemplate: counts '{' and '}' only.
RECURSIVE UF_SkipInterpolation(_, _, _)
UF_SkipInterpolation(str, i, d) ==
    CHOOSE r \in {
    IF i < Len(str) /\ dd > 0
    THEN IF k >= Len(str) THEN k
         ELSE UF_SkipInterpolation(str, k + 1, IF At(str, k) = "{" THEN dd + 1 ELSE dd - 1)
    ELSE i : k \in {FirstAt(str, i, LAMBDA ch : ch = "{" \/ ch = "}")}, dd \in {d} } : TRUE

RECURSIVE UF_SkipTemplateFrom(_, _)
UF_SkipTemplateFrom(str, i) ==
    CHOOSE r \in {
    IF k >= Len(str) THEN k
    ELSE IF At(str, k) = "\\" THEN UF_SkipTemplateFrom(str, k + 2)
    ELSE IF At(str, k) = "$" /\ At(str, k + 1) = "{"
         THEN UF_SkipTemplateFrom(str, UF_SkipInterpolation(str, k + 2, 1))
    ELSE IF At(str, k) = Backtick THEN k + 1
    ELSE UF_SkipTemplateFrom(str, k + 1)
    : k \in {FirstAt(str, i, LAMBDA ch : ch = "\\" \/ ch = "$" \/ ch = Backtick)} } : TRUE

UF_skipTemplate(str, pos) == UF_SkipTemplateFrom(str, pos + 1)

UF_CloserOf(open) == IF open = "{" THEN "}" ELSE "]"

RECURSIVE UF_FindBalancedFrom(_, _, _, _)
UF_FindBalancedFrom(str, open, from, depth) ==
    CHOOSE r \in {
    IF i >= Len(str) THEN -1
    ELSE LET ch == At(str, i) IN
         IF ch = "\"" \/ ch = "'" THEN UF_FindBalancedFrom(str, open, UF_skipQuoted(str, i), d)
         ELSE IF ch = Backtick THEN UF_FindBalancedFrom(str, open, UF_skipTemplate(str, i), d)
         ELSE IF ch = open THEN UF_FindBalancedFrom(str, open, i + 1, d + 1)
         ELSE IF ch = UF_CloserOf(open)
              THEN IF d - 1 = 0 THEN i
                   ELSE UF_FindBalancedFrom(str, open, i + 1, d - 1)
         ELSE UF_FindBalancedFrom(str, open, i + 1, d)
    : i \in {FirstAt(str, from, LAMBDA c : c \in {"\"", "'", Backtick, open, UF_CloserOf(open)})},
      d \in {depth} } : TRUE

UF_findBalancedEnd(str, pos) ==
    CHOOSE r \in { UF_FindBalancedFrom(str, o, p, 0) : o \in {At(str, pos)}, p \in {pos} } : TRUE

\* What extractProp returns: null, or { value } with the span it was cut from.
UF_Unset == [st |-> "unset", start |-> 0, end |-> 0, value |-> <<>>]
UF_Null == [st |-> "null", start |-> 0, end |-> 0, value |-> <<>>]
UF_Found(body, j, end) ==
    [st |-> "value", start |-> j, end |-> end, value |-> Substring(body, j, end)]

\* while (i < str.length && /\s/.test(str[i])) i++;
UF_SkipWs(str, i) == FirstAt(str, i, LAMBDA ch : ~IsWs(ch))

\* while (j < body.length && body[j] === ' ') j++;
UF_SkipSpaces(str, j) == FirstAt(str, j, LAMBDA ch : ch # " ")

\* while (end < body.length && body[end] !== ',' && body[end] !== '\n') end++;
UF_PlainValueEnd(body, end) == FirstAt(body, end, LAMBDA ch : ch = "," \/ ch = "\n")

\* The end of the value that starts at j, by its first character.
UF_ValueEnd(body, j) ==
    LET ch == At(body, j) IN
    IF ch = "{" THEN UF_findBalancedEnd(body, j) + 1
    ELSE IF ch = "[" THEN UF_findBalancedEnd(body, j) + 1
    ELSE IF ch = Backtick THEN UF_skipTemplate(body, j)
    ELSE IF ch = "\"" \/ ch = "'" THEN UF_skipQuoted(body, j)
    ELSE UF_PlainValueEnd(body, j)

\* Whether `name`, optional spaces and a colon start at i; then the offset of
\* the value, else -1.
UF_KeyAt(body, name, i) ==
    IF Substring(body, i, i + Len(name)) = name
    THEN LET j == UF_SkipSpaces(body, i + Len(name)) IN
         IF At(body, j) = ":" THEN UF_SkipSpaces(body, j + 1) ELSE -1
    ELSE -1

\* /[\s{[\`"',}\]]/
UF_StopsToken(ch) == IsWs(ch) \/ ch \in {"{", "[", Backtick, "\"", "'", ",", "}", "]"}

\* while (i < body.length && !/[\s{[\`"',}\]]/.test(body[i])) i++;
UF_SkipWord(body, i) == FirstAt(body, i, UF_StopsToken)

\* The cursor after the token at i is passed over.
UF_SkipToken(body, i) ==
    LET ch == At(body, i) IN
    IF ch = "{" THEN UF_findBalancedEnd(body, i) + 1
    ELSE IF ch = "[" THEN UF_findBalancedEnd(body, i) + 1
    ELSE IF ch = Backtick THEN UF_skipTemplate(body, i)
    ELSE IF ch = "\"" \/ ch = "'" THEN UF_skipQuoted(body, i)
    ELSE LET k == UF_SkipWord(body, i) IN
         IF k < Len(body) /\ (At(body, k) = "," \/ At(body, k) = ":") THEN k + 1 ELSE k

\* lines.map((line, idx) => idx === 0 || line.trim() === '' ? line : extra + line)
UF_reindentLines(text, extra) ==
    CHOOSE r \in {
        JoinLines([idx \in 1..Len(lines) |->
                     IF idx = 1 \/ Trim(lines[idx]) = <<>> THEN lines[idx]
                     ELSE extra \o lines[idx]])
        : lines \in {SplitLines(text)} } : TRUE

UF_detectIndentUnit(content) ==
    IF Includes(content, <<"\n", "\t">>) THEN <<"\t">> ELSE <<" ", " ">>

UF_Anchor == <<"o", "p", "e", "r", "a", "t", "i", "o", "n", "s", ":">>
UF_Marker ==
    <<"d", "e", "l", "i", "v", "e", "r", "y", "D", "i", "s", "c", "o", "u", "n", "t",
      "s", "A", "d", "d">>
UF_NameValue == <<"v", "a", "l", "u", "e">>
UF_NameTargets == <<"t", "a", "r", "g", "e", "t", "s">>
UF_NameMessage == <<"m", "e", "s", "s", "a", "g", "e">>

UF_AlreadyMigrated(content) == Includes(content, UF_Marker)

\* let ls = elemStart; while (ls > 0 && content[ls - 1] !== '\n') ls--;
UF_LineStart(content, elemStart) ==
    CHOOSE ls \in 0..elemStart :
        /\ ls = 0 \/ At(content, ls - 1) = "\n"
        /\ \A m \in (ls + 1)..elemStart : At(content, m - 1) # "\n"

\* content.substring(ls, elemStart).match(/^(\s*)/)[1]
UF_ElemIndent(content, ls, elemStart) ==
    LET prefix == Substring(content, ls, elemStart)
    IN  Substring(prefix, 0, UF_SkipWs(prefix, 0))

UF_TxtOpen == <<"{", "\n">>
UF_TxtWrapper ==
    <<"d", "e", "l", "i", "v", "e", "r", "y", "D", "i", "s", "c", "o", "u", "n", "t",
      "s", "A", "d", "d", ":", " ", "{", "\n">>
UF_TxtStrategy ==
    <<"s", "e", "l", "e", "c", "t", "i", "o", "n", "S", "t", "r", "a", "t", "e", "g",
      "y", ":", " ", "\"", "A", "L", "L", "\"", ",", "\n">>
UF_TxtCandidates ==
    <<"c", "a", "n", "d", "i", "d", "a", "t", "e", "s", ":", " ", "[", "\n">>
UF_TxtTargets == <<"t", "a", "r", "g", "e", "t", "s", ":", " ">>
UF_TxtValue == <<"v", "a", "l", "u", "e", ":", " ">>
UF_TxtMessage == <<"m", "e", "s", "s", "a", "g", "e", ":", " ">>
UF_TxtComma == <<",", "\n">>
UF_TxtAssociated ==
    <<"a", "s", "s", "o", "c", "i", "a", "t", "e", "d", "D", "i", "s", "c", "o", "u",
      "n", "t", "C", "o", "d", "e", ":", " ", "n", "u", "l", "l", ",", "\n">>
UF_TxtCloseObj == <<"}", ",", "\n">>
UF_TxtCloseArr == <<"]", ",", "\n">>
UF_TxtClose == <<"}">>

\* Lines 360-363: the fields of the one element of candidates.
UF_CandidateFields(i4, extra, targetsV, valueV, messageV) ==
    i4 \o UF_TxtTargets \o UF_reindentLines(targetsV, extra) \o UF_TxtComma
    \o i4 \o UF_TxtValue \o UF_reindentLines(valueV, extra) \o UF_TxtComma
    \o i4 \o UF_TxtMessage \o Trim(messageV) \o UF_TxtComma
    \o i4 \o UF_TxtAssociated

\* The block that replaces the candidate.
UF_NewElem(elemIndent, unit, targetsV, valueV, messageV) ==
    LET i1 == elemIndent \o unit
        i2 == elemIndent \o Repeat(unit, 2)
        i3 == elemIndent \o Repeat(unit, 3)
        i4 == elemIndent \o Repeat(unit, 4)
        extra == Repeat(unit, 3)
    IN  elemIndent \o UF_TxtOpen
        \o i1 \o UF_TxtWrapper
        \o i2 \o UF_TxtStrategy
        \o i2 \o UF_TxtCandidates
        \o i3 \o UF_TxtOpen
        \o UF_CandidateFields(i4, extra, targetsV, valueV, messageV)
        \o i3 \o UF_TxtCloseObj
        \o i2 \o UF_TxtCloseArr
        \o i1 \o UF_TxtCloseObj
        \o elemIndent \o UF_TxtClose

\* content.substring(0, ls) + newElem + content.substring(elemEnd + 1)
UF_Splice(content, ls, newElem, elemEnd) ==
    Substring(content, 0, ls) \o newElem \o SubstringFrom(content, elemEnd + 1)

\* for (let i = bi + 1; ...): the offset of the array's first element, -1 if the
\* first character that is not whitespace is no '{'.
UF_ElemStartAfter(content, bi) ==
    LET k == UF_SkipWs(content, bi + 1) IN
    IF At(content, k) = "{" THEN k ELSE -1

\* The locals of one invocation; pc is the place the invocation has reached:
\* "begin" (line 309), "search" (the head of the while loop), "match" and "skip"
\* (the two halves of one pass of extractProp's loop), "check" (line 342), "done".
UF_NewCall(text) ==
    [pc |-> "begin", content |-> text, unit |-> <<>>, searchFrom |-> 0,
     elemStart |-> -1, elemEnd |-> -1, body |-> <<>>, name |-> <<>>, i |-> 0,
     valueP |-> UF_Unset, targetsP |-> UF_Unset, messageP |-> UF_Unset,
     iters |-> 0, out |-> <<>>]

UF_Return(s, text) == [s EXCEPT !.pc = "done", !.out = text]

\* if (content.includes('deliveryDiscountsAdd')) return content;
UF_BeginStep(s) ==
    IF UF_AlreadyMigrated(s.content) THEN UF_Return(s, s.content)
    ELSE [s EXCEPT !.pc = "search", !.unit = UF_detectIndentUnit(s.content), !.searchFrom = 0]

\* { searchFrom = ...; continue; }
UF_Retry(s, from) == [s EXCEPT !.pc = "search", !.searchFrom = from]

\* body.includes('deliveryDiscountsAdd')
UF_CandidateMigrated(body) == Includes(body, UF_Marker)

\* const idx = content.indexOf('operations:', searchFrom);
UF_AnchorFrom(s) == IndexOf(s.content, UF_Anchor, s.searchFrom)

\* let bi = idx + 'operations:'.length; while (... /\s/.test(content[bi])) bi++;
UF_BracketAfter(s, idx) == UF_SkipWs(s.content, idx + Len(UF_Anchor))

\* One pass of the while loop, up to the first extractProp call, given the
\* locals idx, bi, elemStart, elemEnd and body of that pass (a local the pass
\* does not reach is not read).
UF_SearchStep(s, idx, bi, elemStart, elemEnd, body) ==
    IF ~(s.searchFrom < Len(s.content)) THEN UF_Return(s, s.content)
    ELSE
    LET t == [s EXCEPT !.iters = @ + 1]
    IN  IF idx = -1 THEN UF_Return(t, s.content)
        ELSE IF At(s.content, bi) # "[" THEN UF_Retry(t, bi)
        ELSE IF elemStart = -1 THEN UF_Retry(t, bi + 1)
        ELSE IF elemEnd = -1 THEN UF_Retry(t, elemStart + 1)
        ELSE IF UF_CandidateMigrated(body) THEN UF_Retry(t, elemEnd + 1)
        ELSE [t EXCEPT !.pc = "match", !.elemStart = elemStart, !.elemEnd = elemEnd,
                       !.body = body, !.name = UF_NameValue, !.i = 0,
                       !.valueP = UF_Unset, !.targetsP = UF_Unset, !.messageP = UF_Unset]

\* extractProp returns r: the Driver stores it and makes its next call.
UF_LocatorReturn(s, r) ==
    IF s.name = UF_NameValue
    THEN [s EXCEPT !.valueP = r, !.name = UF_NameTargets, !.i = 0, !.pc = "match"]
    ELSE IF s.name = UF_NameTargets
    THEN [s EXCEPT !.targetsP = r, !.name = UF_NameMessage, !.i = 0, !.pc = "match"]
    ELSE [s EXCEPT !.messageP = r, !.pc = "check"]

\* extractProp, lines 258-279: the loop test, the whitespace skip (to i) and the
\* match (j: where the value starts, -1 without a match; end: where it ends).
UF_MatchStep(s, i, j, end) ==
    IF ~(i < Len(s.body)) THEN UF_LocatorReturn(s, UF_Null)
    ELSE IF j # -1 THEN UF_LocatorReturn(s, UF_Found(s.body, j, end))
    ELSE [s EXCEPT !.pc = "skip", !.i = i]

\* extractProp, lines 282-287.
UF_SkipStep(s, i) == [s EXCEPT !.pc = "match", !.i = i]

\* if (!valueP || !targetsP || !messageP)
UF_ShapeMismatch(s) ==
    s.valueP.st = "null" \/ s.targetsP.st = "null" \/ s.messageP.st = "null"

\* Lines 342-369, given the locals ls and elemIndent.
UF_CheckStep(s, ls, elemIndent) ==
    IF UF_ShapeMismatch(s) THEN UF_Retry(s, s.elemEnd + 1)
    ELSE UF_Return(s, UF_Splice(s.content, ls,
                          UF_NewElem(elemIndent, s.unit, s.targetsP.value,
                                  s.valueP.value, s.messageP.value),
                          s.elemEnd))

\* One step of an invocation of each copy, by the place it has reached.
UF_StepAlone(s) ==
    IF s.pc = "begin" THEN UF_BeginStep(s)
    ELSE IF s.pc = "search"
    THEN LET idx == UF_AnchorFrom(s)
             bi == UF_BracketAfter(s, idx)
             elemStart == UF_ElemStartAfter(s.content, bi)
             elemEnd == UF_findBalancedEnd(s.content, elemStart)
         IN  UF_SearchStep(s, idx, bi, elemStart, elemEnd,
                           Substring(s.content, elemStart + 1, elemEnd))
    ELSE IF s.pc = "match"
    THEN LET i == UF_SkipWs(s.body, s.i)
             j == UF_KeyAt(s.body, s.name, i)
         IN  UF_MatchStep(s, i, j, UF_ValueEnd(s.body, j))
    ELSE IF s.pc = "skip" THEN UF_SkipStep(s, UF_SkipToken(s.body, s.i))
    ELSE LET ls == UF_LineStart(s.content, s.elemStart)
         IN  UF_CheckStep(s, ls, UF_ElemIndent(s.content, ls, s.elemStart))

\* Both copies are called on the same input: call 1 is migrate-extensions.js's,
\* call 2 upgrade-functions.js's. They run in step; a copy that has returned
\* waits for the other.
TwinInit ==
    /\ gen \in {<<g, g>> : g \in Gens}
    /\ calls = <<NewCall(Render(gen[1])), UF_NewCall(Render(gen[2]))>>
    /\ prev = <<<<>>, <<>>>>
    /\ scan = NoScan
    /\ run = NoRun

TwinStep ==
    /\ calls[1].pc # "done" \/ calls[2].pc # "done"
    /\ calls' = <<IF calls[1].pc = "done" THEN calls[1] ELSE StepAlone(calls[1]),
                  IF calls[2].pc = "done" THEN calls[2] ELSE UF_StepAlone(calls[2])>>
    /\ UNCHANGED <<gen, prev, scan, run>>

SpecTwin == TwinInit /\ [][TwinStep]_vars

\* C30: the two copies of the engine agree: on every input both return the same
\* output, after the same steps, or neither returns.
C30_CopiesAgree ==
    /\ (calls[1].pc = "done") <=> (calls[2].pc = "done")
    /\ calls[1].pc = "done" => calls[1].out = calls[2].out

\* Both copies have returned a buffer in which a candidate with a value of
\* several lines is rewritten.
C30_Witness ==
    /\ calls[1].pc = "done"
    /\ calls[2].pc = "done"
    /\ gen[1].props = <<3, 1, 2>>
    /\ gen[1].kind = "cand"
    /\ calls[2].out # calls[2].content
    /\ calls[1].out = calls[2].out
====
